---------------------------- MODULE Spec2Model ----------------------------
(***************************************************************************)
(* Run tracker of src/app.js (the variant with saved runs, lines 311-679): *)
(* the `state` object, the four button handlers, the interval callback,   *)
(* the geolocation callbacks, the page's load and unload handlers, and the  *)
(* browser objects they depend on (the clock, the list of active timers,   *)
(* the geolocation watches, the tasks queued for their callbacks and the    *)
(* localStorage item that holds the saved runs).  The variant with the     *)
(* history list (lines 1-309) differs in stopTracking and resetTracking;   *)
(* HistorySpec follows it.                                                 *)
(*                                                                         *)
(* Units.  Clock values are milliseconds (Date.now()).  Latitude and       *)
(* longitude are whole multiples of 45 millionths of a degree (grid       *)
(* steps), distances are whole metres (the source's kilometres times      *)
(* 1000).  Text (a formatted time, a number or a date in the stored JSON)   *)
(* is a sequence of one-character strings.                                 *)
(***************************************************************************)
EXTENDS Integers, Sequences, FiniteSets

VARIABLES
    isTracking,     \* state.isTracking
    startTime,      \* state.startTime: Null or <<ms>>
    currentTime,    \* state.currentTime, seconds
    timerInterval,  \* state.timerInterval: Null or <<timer id>>
    positions,      \* state.positions
    totalDistance,  \* state.totalDistance, metres
    watchId,        \* state.watchId: Null or <<watch id>>
    savedRuns,      \* state.savedRuns
    savedRunsList,  \* the entries savedRunsList shows, top first
    storage,        \* localStorage item "footmeasure_saved_runs"
    historyList,    \* the items of historyList, top first (lines 1-309)
    statusEl,       \* what statusEl shows
    alerted,        \* the alert() raised by the handler that ran last
    now,            \* Date.now()
    timers,         \* the ids of the window's active interval timers
    watches,        \* the watch ids geolocation holds
    nextWatchId,    \* the id the next watchPosition() returns
    tasks,          \* queued success callbacks, oldest first
    geolocation,    \* navigator.geolocation is there
    last,           \* the handler that ran last, and isTracking before it
    resetMark,      \* nextWatchId when resetTracking last ran
    resumed         \* while Tracking: the clock and the elapsed time at the
                    \* startTracking call that began it, else Null

vars == <<isTracking, startTime, currentTime, timerInterval, positions,
          totalDistance, watchId, savedRuns, savedRunsList, storage,
          historyList, statusEl, alerted, now, timers,
          watches, nextWatchId, tasks, geolocation, last, resetMark,
          resumed>>

session == <<isTracking, startTime, currentTime, timerInterval, positions,
             totalDistance, watchId>>

-----------------------------------------------------------------------------
(* Bounds of the model *)

MaxClockSteps == 2      \* the clock advances at most this many times
MaxPositions == 3       \* samples recorded or queued at a time
MaxRuns == 2            \* saved runs
MaxWatchId == 1         \* the largest watch id geolocation hands out
MaxTasks == 1           \* success callbacks queued at a time
MaxStoredRuns == 6      \* runs in the stored payload a page starts from
ClockStepMs == 500      \* the clock advances in steps of this many ms

(* Program constants *)

SaveThresholdM == 10    \* state.totalDistance < 0.01 (km)
HistoryThresholdM == 100 \* state.totalDistance > 0.1 (km, line 233)
ListCap == 5            \* historyList.children.length > 5 (line 292)
\* the square of one grid step (45 millionths of a degree) in centimetres on
\* a sphere of R = 6371 km: (637100000 * 0.000045 * PI / 180)^2
CmSqPerStep == 250377

Null == <<>>
Some(v) == <<v>>
Val(o) == o[1]

\* JavaScript truthiness of a handle: null and 0 are falsy
Truthy(o) == o # Null /\ Val(o) # 0

\* the coordinates the position stream reports, in grid steps
Coords == { [latitude |-> 0, longitude |-> 0],
            [latitude |-> 0, longitude |-> 2] }

Accuracies == {10}

-----------------------------------------------------------------------------
(* Geo math *)

RECURSIVE IsqrtIter(_, _, _)
IsqrtIter(n, lo, hi) ==
    IF lo >= hi THEN lo
    ELSE LET mid == (lo + hi + 1) \div 2
         IN IF mid * mid <= n THEN IsqrtIter(n, mid, hi)
                              ELSE IsqrtIter(n, lo, mid - 1)

\* floor of the square root
Isqrt(n) == IsqrtIter(n, 0, 46340)

\* calculateDistance, in whole metres, for coordinates a few grid steps from
\* (0, 0): there cos(lat) = 1 and sin x = x to 1e-9, so R * c is
\* R * sqrt(dLat^2 + dLon^2) with the angles in radians.
calculateDistance(lat1, lon1, lat2, lon2) ==
    LET dLat == lat2 - lat1
        dLon == lon2 - lon1
        cm == Isqrt((dLat * dLat + dLon * dLon) * CmSqPerStep)
    IN (cm + 50) \div 100

\* the sum of the distances between consecutive elements of a path
RECURSIVE PathLength(_)
PathLength(ps) ==
    IF Len(ps) < 2 THEN 0
    ELSE PathLength(SubSeq(ps, 1, Len(ps) - 1))
         + calculateDistance(ps[Len(ps) - 1].latitude, ps[Len(ps) - 1].longitude,
                             ps[Len(ps)].latitude, ps[Len(ps)].longitude)

-----------------------------------------------------------------------------
(* Text *)

DigitChars == <<"0", "1", "2", "3", "4", "5", "6", "7", "8", "9">>

\* Number.prototype.toString of an integer that is not negative
RECURSIVE ToString(_)
ToString(n) ==
    IF n < 10 THEN <<DigitChars[n + 1]>>
    ELSE ToString(n \div 10) \o <<DigitChars[(n % 10) + 1]>>

\* String.prototype.padStart with a one-character filler
RECURSIVE PadStart(_, _, _)
PadStart(text, targetLength, filler) ==
    IF Len(text) >= targetLength THEN text
    ELSE PadStart(<<filler>> \o text, targetLength, filler)

DigitValue(c) == CHOOSE d \in 0..9 : DigitChars[d + 1] = c

\* the integer a text of digits denotes
RECURSIVE ParseInt(_)
ParseInt(text) ==
    IF text = <<>> THEN 0
    ELSE ParseInt(SubSeq(text, 1, Len(text) - 1)) * 10
         + DigitValue(text[Len(text)])

\* a formatTime that keeps the last two digits of the hours
formatTimeTwoDigitHours(seconds) ==
    LET hrs == (seconds \div 3600) % 100
        mins == (seconds % 3600) \div 60
        secs == seconds % 60
    IN PadStart(ToString(hrs), 2, "0") \o <<":">>
       \o PadStart(ToString(mins), 2, "0") \o <<":">>
       \o PadStart(ToString(secs), 2, "0")

\* lines 363-371
formatTime(seconds) ==
    LET hrs == seconds \div 3600
        mins == (seconds % 3600) \div 60
        secs == seconds % 60
    IN PadStart(ToString(hrs), 2, "0") \o <<":">>
       \o PadStart(ToString(mins), 2, "0") \o <<":">>
       \o PadStart(ToString(secs), 2, "0")

\* lines 374-377, in tenths of a km/h: (distance / (time / 3600)).toFixed(1)
calculateSpeed(distance, time) ==
    IF time = 0 THEN 0 ELSE (distance * 36 + time \div 2) \div time

\* distance.toFixed(2) of a distance in km: hundredths of a km
ToFixed2(distance) == (distance + 5) \div 10

-----------------------------------------------------------------------------
(* updateSavedRunsList, lines 483-522 *)

\* run.distance.toFixed (line 506) throws on a run that has no distance
CanRender(runs) == \A i \in 1..Len(runs) : "distance" \in DOMAIN runs[i]

\* line 502-521, one <li>
Entry(run) ==
    [date |-> run.date, distance |-> ToFixed2(run.distance),
     time |-> formatTime(run.time),
     speed |-> calculateSpeed(run.distance, run.time)]

\* lines 495-522: slice().reverse().map(...); every run is shown.  With no
\* run the list holds the "No saved runs yet" item and no run entry.
RECURSIVE Rendered(_)
Rendered(runs) ==
    IF runs = <<>> THEN <<>>
    ELSE Append(Rendered(Tail(runs)), Entry(Head(runs)))

-----------------------------------------------------------------------------
(* The stored runs: JSON.stringify (line 673) and JSON.parse (line 657) *)

\* the time value of new Date(undefined): NaN, an Invalid Date
InvalidDate == -1

JsonNull == [null |-> TRUE]
JsonUndefined == [undefined |-> TRUE]

\* Date.prototype.toJSON: the date as text, null for an Invalid Date
DateJson(date) ==
    IF date = InvalidDate THEN JsonNull ELSE [text |-> ToString(date)]

\* new Date(value), line 661
DateOf(json) ==
    IF json = JsonUndefined THEN InvalidDate
    ELSE IF json = JsonNull THEN 0
    ELSE ParseInt(json.text)

RECURSIVE PositionsJson(_)
PositionsJson(ps) ==
    IF ps = <<>> THEN <<>>
    ELSE <<[latitude |-> ToString(Head(ps).latitude),
            longitude |-> ToString(Head(ps).longitude),
            accuracy |-> ToString(Head(ps).accuracy)]>>
         \o PositionsJson(Tail(ps))

RECURSIVE PositionsOf(_)
PositionsOf(json) ==
    IF json = <<>> THEN <<>>
    ELSE <<[latitude |-> ParseInt(Head(json).latitude),
            longitude |-> ParseInt(Head(json).longitude),
            accuracy |-> ParseInt(Head(json).accuracy)]>>
         \o PositionsOf(Tail(json))

\* the JSON object of one element of state.savedRuns
RunJson(run) ==
    IF "id" \in DOMAIN run
    THEN [t |-> "run", id |-> ToString(run.id), date |-> DateJson(run.date),
          distance |-> ToString(run.distance), time |-> ToString(run.time),
          positions |-> PositionsJson(run.positions)]
    ELSE [t |-> "object", date |-> DateJson(run.date)]

RECURSIVE ItemsJson(_)
ItemsJson(runs) ==
    IF runs = <<>> THEN <<>>
    ELSE <<RunJson(Head(runs))>> \o ItemsJson(Tail(runs))

\* line 673: JSON.stringify(state.savedRuns)
Stringify(runs) == [kind |-> "array", items |-> ItemsJson(runs)]

\* a revival that does not read the positions back
RevivedWithoutPositions(item) ==
    IF item.t = "run"
    THEN [id |-> ParseInt(item.id), date |-> DateOf(item.date),
          distance |-> ParseInt(item.distance), time |-> ParseInt(item.time),
          positions |-> <<>>, sharesLive |-> FALSE]
    ELSE [date |-> DateOf(item.date), sharesLive |-> FALSE]

\* lines 659-662: { ...run, date: new Date(run.date) } of a parsed element
\* that is not null
Revived(item) ==
    IF item.t = "run"
    THEN [id |-> ParseInt(item.id), date |-> DateOf(item.date),
          distance |-> ParseInt(item.distance), time |-> ParseInt(item.time),
          positions |-> PositionsOf(item.positions), sharesLive |-> FALSE]
    ELSE [date |-> DateOf(item.date), sharesLive |-> FALSE]

RECURSIVE RevivedAll(_)
RevivedAll(items) ==
    IF items = <<>> THEN <<>>
    ELSE <<Revived(Head(items))>> \o RevivedAll(Tail(items))

Absent == [kind |-> "absent"]

\* lines 653-667, what state.savedRuns is after them.  The item is absent
\* (line 654), or is not JSON (JSON.parse throws), or is JSON but no array
\* (parsedData.map is not a function), or is an array with a null element
\* (run.date throws inside map, before the assignment), or is an array of
\* objects.
LoadedRuns(payload) ==
    IF payload.kind # "array" THEN <<>>
    ELSE IF \E i \in 1..Len(payload.items) : payload.items[i].t = "null"
         THEN <<>>
         ELSE RevivedAll(payload.items)

\* lines 651 and 663: the list is rendered with no run, and again after the
\* assignment of line 659 unless that rendering throws
LoadedList(payload) ==
    IF CanRender(LoadedRuns(payload)) THEN Rendered(LoadedRuns(payload))
    ELSE <<>>

\* the durations of the stored runs
StoredDurations == <<0, 59, 3600, 3661, 359999, 360000>>

\* the k-th run of the payloads a page starts from
StoredRun(k) ==
    [t |-> "run", id |-> ToString(k), date |-> [text |-> ToString(k)],
     distance |-> ToString(SaveThresholdM * k),
     time |-> ToString(StoredDurations[((k - 1) % Len(StoredDurations)) + 1]),
     positions |-> IF k % 2 = 0 THEN <<>>
                   ELSE <<[latitude |-> ToString(0), longitude |-> ToString(k),
                           accuracy |-> ToString(SaveThresholdM)]>>]

RECURSIVE StoredRuns(_)
StoredRuns(k) ==
    IF k = 0 THEN <<>> ELSE Append(StoredRuns(k - 1), StoredRun(k))

EmptyObject == [t |-> "object", date |-> JsonUndefined]
NullItem == [t |-> "null"]

\* what the item can hold when a page loads: nothing, text that is not JSON,
\* JSON that is not an array, arrays with elements that are not runs, and
\* arrays of runs
StoredPayloads ==
    {Absent, [kind |-> "text"], [kind |-> "value"]}
    \cup {[kind |-> "array", items |-> items] :
            items \in {<<NullItem>>, <<EmptyObject>>,
                       <<StoredRun(1), NullItem>>,
                       <<StoredRun(1), EmptyObject>>}
                      \cup {StoredRuns(k) : k \in 0..MaxStoredRuns}}

-----------------------------------------------------------------------------
(* The state after initApp (lines 648-676) on a page whose stored item is  *)
(* payload: the state object of lines 312-324 with the runs of lines       *)
(* 653-667, before any click.                                              *)

FirstWatchIds == {0, 1}

\* the item historyList holds before any run: line 286 looks for its text
NoRuns == [text |-> "No runs"]

Loaded(payload) ==
    /\ isTracking = FALSE
    /\ startTime = Null
    /\ currentTime = 0
    /\ timerInterval = Null
    /\ positions = <<>>
    /\ totalDistance = 0
    /\ watchId = Null
    /\ savedRuns = LoadedRuns(payload)
    /\ savedRunsList = LoadedList(payload)
    /\ storage = payload
    /\ historyList = <<NoRuns>>
    /\ statusEl = "initial"
    /\ alerted = "none"
    /\ now = 0
    /\ timers = {}
    /\ watches = {}
    /\ nextWatchId \in FirstWatchIds
    /\ tasks = <<>>
    /\ geolocation \in BOOLEAN
    /\ last = [op |-> "load", wasTracking |-> FALSE]
    /\ resetMark = 0
    /\ resumed = Null

\* a browser that has stored nothing yet
Init == Loaded(Absent)

\* a browser that holds a stored item
InitPage == \E payload \in StoredPayloads : Loaded(payload)

-----------------------------------------------------------------------------
(* The browser *)

\* setInterval's handle: an integer greater than zero that no active timer has
NewTimerId == CHOOSE i \in 1..(Cardinality(timers) + 1) : i \notin timers

\* clearInterval(handle): the timer of that id, if any, is no longer active
ClearInterval(ts, handle) ==
    IF handle = Null THEN ts ELSE ts \ {Val(handle)}

\* clearWatch(id)
ClearWatch(ws, id) == ws \ {id}

-----------------------------------------------------------------------------
(* startTracking, lines 525-589 *)

\* a start that counts from the clock, dropping the time already elapsed
RestartedStart(n, elapsed) == n

\* line 529
ResumedStart(n, elapsed) == n - elapsed * 1000

\* a start handler without the guard of line 526
AlreadyTrackingUnguarded == FALSE

\* line 526
AlreadyTracking == isTracking

StartTracking ==
    /\ last' = [op |-> "start", wasTracking |-> isTracking]
    /\ alerted' = "none"
    /\ IF AlreadyTracking
       THEN UNCHANGED <<session, statusEl, timers, watches, nextWatchId,
                        resumed>>
       ELSE /\ geolocation => nextWatchId <= MaxWatchId
            /\ isTracking' = TRUE
            /\ resumed' = Some([at |-> now, elapsed |-> currentTime])
            /\ startTime' = Some(ResumedStart(now, currentTime))
            /\ timerInterval' = Some(NewTimerId)
            /\ timers' = timers \cup {NewTimerId}
            /\ IF geolocation
               THEN /\ statusEl' = "tracking"
                    /\ watchId' = Some(nextWatchId)
                    /\ watches' = watches \cup {nextWatchId}
                    /\ nextWatchId' = nextWatchId + 1
               ELSE /\ statusEl' = "unsupported"
                    /\ UNCHANGED <<watchId, watches, nextWatchId>>
            /\ UNCHANGED <<currentTime, positions, totalDistance>>
    /\ UNCHANGED <<savedRuns, savedRunsList, now, tasks, geolocation, storage,
                   historyList, resetMark>>

(* The interval callback, lines 532-535 *)

\* line 533
Elapsed(n, start) == (n - start) \div 1000

\* an interval callback that also records the last position again
TickRecordingLastPosition ==
    /\ timers # {}
    /\ currentTime' = Elapsed(now, Val(startTime))
    /\ positions' = IF positions = <<>> THEN positions
                    ELSE Append(positions, positions[Len(positions)])
    /\ last' = [op |-> "tick", wasTracking |-> isTracking]
    /\ alerted' = "none"
    /\ UNCHANGED <<isTracking, startTime, timerInterval, totalDistance,
                   watchId, savedRuns, savedRunsList, statusEl, now, timers,
                   watches, nextWatchId, tasks, geolocation, storage,
                   historyList, resetMark, resumed>>

Tick ==
    /\ timers # {}
    /\ currentTime' = Elapsed(now, Val(startTime))
    /\ last' = [op |-> "tick", wasTracking |-> isTracking]
    /\ alerted' = "none"
    /\ UNCHANGED <<isTracking, startTime, timerInterval, positions,
                   totalDistance, watchId, savedRuns, savedRunsList, statusEl,
                   now, timers, watches, nextWatchId, tasks, geolocation,
                   storage, historyList, resetMark, resumed>>

(* The watchPosition success callback, lines 544-568 *)

\* measures from the first recorded position instead of the last one
AccumulatedFromFirst(total, ps, latitude, longitude) ==
    IF Len(ps) > 0
    THEN total + calculateDistance(ps[1].latitude, ps[1].longitude,
                                   latitude, longitude)
    ELSE total

\* lines 548-557
Accumulated(total, ps, latitude, longitude) ==
    IF Len(ps) > 0
    THEN total + calculateDistance(ps[Len(ps)].latitude, ps[Len(ps)].longitude,
                                   latitude, longitude)
    ELSE total

\* a sample put in front of the recorded positions
PushedInFront(ps, coords) ==
    <<[latitude |-> coords.latitude, longitude |-> coords.longitude,
       accuracy |-> coords.accuracy]>> \o ps

\* lines 559-564.  The timestamp the source also records (Date.now()) is
\* read nowhere; the recorded position here is the three fields of the fix.
Pushed(ps, coords) ==
    Append(ps, [latitude |-> coords.latitude, longitude |-> coords.longitude,
                accuracy |-> coords.accuracy])

\* line 559: push() changes the array in place, so a run that holds the same
\* array object holds the pushed element too
RunsAfterPush(runs, ps) ==
    IF \E i \in DOMAIN runs : runs[i].sharesLive
    THEN [i \in DOMAIN runs |->
            IF runs[i].sharesLive THEN [runs[i] EXCEPT !.positions = ps]
                                  ELSE runs[i]]
    ELSE runs

OnPosition(coords) ==
    /\ totalDistance' = Accumulated(totalDistance, positions,
                                    coords.latitude, coords.longitude)
    /\ positions' = Pushed(positions, coords)
    /\ savedRuns' = RunsAfterPush(savedRuns, positions')

\* geolocation has a position for an active watch: it queues a task that will
\* call the success callback
PositionAcquired ==
    \E w \in watches, c \in Coords, a \in Accuracies :
        /\ Len(tasks) < MaxTasks
        /\ Len(positions) + Len(tasks) < MaxPositions
        /\ tasks' = Append(tasks, [watch |-> w,
                                   coords |-> [latitude |-> c.latitude,
                                               longitude |-> c.longitude,
                                               accuracy |-> a]])
        /\ UNCHANGED <<session, savedRuns, savedRunsList, statusEl, alerted,
                       now, timers, watches, nextWatchId, geolocation,
                       storage, historyList, last, resetMark, resumed>>

\* the event loop runs the oldest queued task
PositionCallback ==
    /\ tasks # <<>>
    /\ OnPosition(Head(tasks).coords)
    /\ tasks' = Tail(tasks)
    /\ last' = [op |-> "sample", wasTracking |-> isTracking]
    /\ alerted' = "none"
    /\ UNCHANGED <<isTracking, startTime, currentTime, timerInterval, watchId,
                   savedRunsList, statusEl, now, timers, watches, nextWatchId,
                   geolocation, storage, historyList, resetMark, resumed>>

(* The watchPosition error callback, lines 569-573 *)

PositionError ==
    /\ watches # {}
    /\ statusEl' = "error"
    /\ last' = [op |-> "error", wasTracking |-> isTracking]
    /\ alerted' = "none"
    /\ UNCHANGED <<session, savedRuns, savedRunsList, now, timers, watches,
                   nextWatchId, tasks, geolocation, storage, historyList,
                   resetMark, resumed>>

-----------------------------------------------------------------------------
(* stopTracking, lines 592-610 *)

\* line 596
TimersAfterStop == ClearInterval(timers, timerInterval)

\* lines 598-601
WatchesAfterStop ==
    IF Truthy(watchId) THEN ClearWatch(watches, Val(watchId)) ELSE watches

WatchIdAfterStop == IF Truthy(watchId) THEN Null ELSE watchId

(* resetTracking, lines 613-639: stopTracking(), then the four assignments *)

\* line 618: state.positions = [] is a new array object; the old one stays
\* with the runs that held it
RunsAfterNewArray(runs) ==
    IF \E i \in DOMAIN runs : runs[i].sharesLive
    THEN [i \in DOMAIN runs |-> [runs[i] EXCEPT !.sharesLive = FALSE]]
    ELSE runs

\* forgets to clear the recorded positions
ClearedKeepingPositions ==
    /\ startTime' = Null
    /\ currentTime' = 0
    /\ positions' = positions
    /\ totalDistance' = 0
    /\ savedRuns' = savedRuns

\* lines 616-619
Cleared ==
    /\ startTime' = Null
    /\ currentTime' = 0
    /\ positions' = <<>>
    /\ totalDistance' = 0
    /\ savedRuns' = RunsAfterNewArray(savedRuns)

ResetTracking ==
    /\ last' = [op |-> "reset", wasTracking |-> isTracking]
    /\ alerted' = "none"
    /\ IF isTracking
       THEN /\ timers' = TimersAfterStop
            /\ watches' = WatchesAfterStop
            /\ watchId' = WatchIdAfterStop
       ELSE UNCHANGED <<timers, watches, watchId>>
    /\ isTracking' = FALSE
    /\ Cleared
    /\ statusEl' = "waiting"
    /\ resetMark' = nextWatchId
    /\ resumed' = Null
    /\ UNCHANGED <<timerInterval, savedRunsList, now, nextWatchId, tasks,
                   geolocation, storage, historyList>>

\* a stop handler that brings the elapsed time up to the clock before pausing
StopTrackingWithFinalTick ==
    /\ last' = [op |-> "stop", wasTracking |-> isTracking]
    /\ alerted' = "none"
    /\ IF isTracking
       THEN /\ isTracking' = FALSE
            /\ currentTime' = Elapsed(now, Val(startTime))
            /\ timers' = TimersAfterStop
            /\ watches' = WatchesAfterStop
            /\ watchId' = WatchIdAfterStop
            /\ statusEl' = "paused"
            /\ resumed' = Null
       ELSE UNCHANGED <<isTracking, currentTime, timers, watches, watchId,
                        statusEl, resumed>>
    /\ UNCHANGED <<startTime, timerInterval, positions, totalDistance,
                   savedRuns, savedRunsList, now, nextWatchId, tasks,
                   geolocation, storage, historyList, resetMark>>

StopTracking ==
    /\ last' = [op |-> "stop", wasTracking |-> isTracking]
    /\ alerted' = "none"
    /\ IF isTracking
       THEN /\ isTracking' = FALSE
            /\ timers' = TimersAfterStop
            /\ watches' = WatchesAfterStop
            /\ watchId' = WatchIdAfterStop
            /\ statusEl' = "paused"
            /\ resumed' = Null
       ELSE UNCHANGED <<isTracking, timers, watches, watchId, statusEl,
                        resumed>>
    /\ UNCHANGED <<startTime, currentTime, timerInterval, positions,
                   totalDistance, savedRuns, savedRunsList, now, nextWatchId,
                   tasks, geolocation, storage, historyList, resetMark>>

-----------------------------------------------------------------------------
(* saveCurrentRun, lines 457-480 *)

\* a threshold test that lets every run through
TooShortNever(total) == total < 0

\* line 458
TooShort(total) == total < SaveThresholdM

\* a run that records the clock where the elapsed time belongs
RunDataClockAsTime ==
    [id |-> now, date |-> now, distance |-> totalDistance,
     time |-> now, positions |-> positions, sharesLive |-> FALSE]

\* a run that holds state.positions itself instead of a copy of it
RunDataSharingPositions ==
    [id |-> now, date |-> now, distance |-> totalDistance,
     time |-> currentTime, positions |-> positions, sharesLive |-> TRUE]

\* lines 463-469.  [...state.positions] is a new array of the same elements:
\* sharesLive says whether the run's positions array is the array object that
\* state.positions refers to.
RunData ==
    [id |-> now, date |-> now, distance |-> totalDistance,
     time |-> currentTime, positions |-> positions, sharesLive |-> FALSE]

\* a save that also clears what it has just archived
SessionClearedBySave ==
    /\ positions' = <<>>
    /\ totalDistance' = 0
    /\ UNCHANGED <<isTracking, startTime, currentTime, timerInterval,
                   watchId>>

\* lines 457-480 assign to no field of the session
SessionAfterSave == UNCHANGED session

SaveCurrentRun ==
    /\ last' = [op |-> "save", wasTracking |-> isTracking]
    /\ IF TooShort(totalDistance)
       THEN /\ alerted' = "tooShort"
            /\ UNCHANGED <<savedRuns, savedRunsList>>
       ELSE /\ Len(savedRuns) < MaxRuns
            /\ savedRuns' = Append(savedRuns, RunData)
            /\ IF CanRender(savedRuns')
               THEN /\ savedRunsList' = Rendered(savedRuns')
                    /\ alerted' = "saved"
               ELSE \* updateSavedRunsList throws: no list, no alert
                    /\ UNCHANGED savedRunsList
                    /\ alerted' = "none"
    /\ SessionAfterSave
    /\ UNCHANGED <<statusEl, now, timers, watches, nextWatchId, tasks,
                   geolocation, storage, historyList, resetMark, resumed>>

-----------------------------------------------------------------------------
(* Time passes *)

AdvanceClock ==
    /\ now < MaxClockSteps * ClockStepMs
    /\ now' = now + ClockStepMs
    /\ UNCHANGED <<session, savedRuns, savedRunsList, statusEl, alerted,
                   timers, watches, nextWatchId, tasks, geolocation, storage,
                   historyList, last, resetMark, resumed>>

Next ==
    \/ StartTracking
    \/ StopTracking
    \/ ResetTracking
    \/ SaveCurrentRun
    \/ Tick
    \/ PositionAcquired
    \/ PositionCallback
    \/ PositionError
    \/ AdvanceClock

Spec == Init /\ [][Next]_vars

-----------------------------------------------------------------------------
(* The page is left and loaded again: the beforeunload listener (lines     *)
(* 670-675) stores the runs, the page and all it held is gone, and initApp *)
(* runs on the new page (lines 648-668).  No code of the page runs between *)
(* the two.                                                                *)

Reload ==
    /\ last' = [op |-> "load", wasTracking |-> isTracking]
    /\ storage' = Stringify(savedRuns)
    /\ savedRuns' = LoadedRuns(storage')
    /\ savedRunsList' = LoadedList(storage')
    /\ isTracking' = FALSE
    /\ startTime' = Null
    /\ currentTime' = 0
    /\ timerInterval' = Null
    /\ positions' = <<>>
    /\ totalDistance' = 0
    /\ watchId' = Null
    /\ statusEl' = "initial"
    /\ alerted' = "none"
    /\ timers' = {}
    /\ watches' = {}
    /\ nextWatchId' \in FirstWatchIds
    /\ tasks' = <<>>
    /\ resetMark' = 0
    /\ resumed' = Null
    /\ UNCHANGED <<now, geolocation, historyList>>

\* A page from one load to the next, around recordings that start, tick,
\* take samples and are saved.  stopTracking, resetTracking and the error
\* callback assign neither state.savedRuns' elements nor the stored item;
\* Spec follows them.
NextPage ==
    \/ StartTracking
    \/ SaveCurrentRun
    \/ Tick
    \/ PositionAcquired
    \/ PositionCallback
    \/ AdvanceClock
    \/ Reload

PageSpec == InitPage /\ [][NextPage]_vars

-----------------------------------------------------------------------------
(* The variant with the history list, lines 1-309.  It has no saved runs   *)
(* and no stored item.  Its startTracking and callbacks (lines 146-210)    *)
(* and the first lines of its stopTracking (lines 214-222) are, word for   *)
(* word, lines 525-589 and 593-601; its resetTracking makes the four       *)
(* assignments of lines 616-619 at lines 242-245.                          *)

\* coordinates 22 grid steps (110 m) apart
FarCoords == { [latitude |-> 0, longitude |-> 0],
               [latitude |-> 0, longitude |-> 22] }

\* geolocation has a position for an active watch, as PositionAcquired
FarPositionAcquired ==
    \E w \in watches, c \in FarCoords, a \in Accuracies :
        /\ Len(tasks) < MaxTasks
        /\ Len(positions) + Len(tasks) < MaxPositions
        /\ tasks' = Append(tasks, [watch |-> w,
                                   coords |-> [latitude |-> c.latitude,
                                               longitude |-> c.longitude,
                                               accuracy |-> a]])
        /\ UNCHANGED <<session, savedRuns, savedRunsList, storage,
                       historyList, statusEl, alerted, now, timers, watches,
                       nextWatchId, geolocation, last, resetMark, resumed>>

\* lines 269-273: the date and the time of day to the minute
DateStr(n) == n \div 60000

\* lines 276-283, the new <li>
HistoryItem ==
    [date |-> DateStr(now), distance |-> ToFixed2(totalDistance)]

\* lines 286-294: the "No runs" item goes, the new item is put on top, and
\* the last one is removed when there are more than ListCap
SavedToHistory(list) ==
    LET kept == IF Head(list) = NoRuns THEN <<>> ELSE list
        grown == <<HistoryItem>> \o kept
    IN IF Len(grown) > ListCap THEN SubSeq(grown, 1, Len(grown) - 1)
                               ELSE grown

\* lines 233-235
HistoryAfterStop ==
    IF totalDistance > HistoryThresholdM THEN SavedToHistory(historyList)
                                         ELSE historyList

\* stopTracking, lines 213-236
HistoryStopTracking ==
    /\ last' = [op |-> "stop", wasTracking |-> isTracking]
    /\ alerted' = "none"
    /\ IF isTracking
       THEN /\ isTracking' = FALSE
            /\ timers' = TimersAfterStop
            /\ watches' = WatchesAfterStop
            /\ watchId' = WatchIdAfterStop
            /\ statusEl' = "paused"
            /\ historyList' = HistoryAfterStop
            /\ resumed' = Null
       ELSE UNCHANGED <<isTracking, timers, watches, watchId, statusEl,
                        historyList, resumed>>
    /\ UNCHANGED <<startTime, currentTime, timerInterval, positions,
                   totalDistance, savedRuns, savedRunsList, storage, now,
                   nextWatchId, tasks, geolocation, resetMark>>

\* a reset that clears the session before it stops it
HistoryResetTrackingClearingFirst ==
    /\ last' = [op |-> "reset", wasTracking |-> isTracking]
    /\ alerted' = "none"
    /\ IF isTracking
       THEN /\ timers' = TimersAfterStop
            /\ watches' = WatchesAfterStop
            /\ watchId' = WatchIdAfterStop
       ELSE UNCHANGED <<timers, watches, watchId>>
    /\ historyList' = historyList
    /\ isTracking' = FALSE
    /\ Cleared
    /\ statusEl' = "waiting"
    /\ resetMark' = nextWatchId
    /\ resumed' = Null
    /\ UNCHANGED <<timerInterval, savedRunsList, storage, now, nextWatchId,
                   tasks, geolocation>>

\* resetTracking, lines 239-265: stopTracking(), with its history item, and
\* then the four assignments
HistoryResetTracking ==
    /\ last' = [op |-> "reset", wasTracking |-> isTracking]
    /\ alerted' = "none"
    /\ IF isTracking
       THEN /\ timers' = TimersAfterStop
            /\ watches' = WatchesAfterStop
            /\ watchId' = WatchIdAfterStop
            /\ historyList' = HistoryAfterStop
       ELSE UNCHANGED <<timers, watches, watchId, historyList>>
    /\ isTracking' = FALSE
    /\ Cleared
    /\ statusEl' = "waiting"
    /\ resetMark' = nextWatchId
    /\ resumed' = Null
    /\ UNCHANGED <<timerInterval, savedRunsList, storage, now, nextWatchId,
                   tasks, geolocation>>

HistoryNext ==
    \/ StartTracking
    \/ HistoryStopTracking
    \/ HistoryResetTracking
    \/ Tick
    \/ FarPositionAcquired
    \/ PositionCallback
    \/ PositionError
    \/ AdvanceClock

HistorySpec == Init /\ [][HistoryNext]_vars

-----------------------------------------------------------------------------
(* Accumulated distance *)

\* C1: in every reachable state totalDistance is the sum of the distances
\* between consecutive elements of positions (0 for fewer than two).
C1_DistanceIsPathLength == totalDistance = PathLength(positions)

\* a third sample has arrived, so two distances have been added
C1_Witness ==
    /\ last.op = "sample"
    /\ Len(positions) = 3
    /\ totalDistance > 0

-----------------------------------------------------------------------------
(* Callbacks of a subscription that is no longer the session's *)

\* C2: a position callback of a subscription created before reset(),
\* delivered after that reset() and a new start(), changes neither positions
\* nor totalDistance.
C2_StaleCallbackIgnored ==
    [][(PositionCallback /\ isTracking /\ Head(tasks).watch < resetMark)
         => UNCHANGED <<positions, totalDistance>>]_vars

\* C3: a position sample delivered while the session is not Tracking changes
\* neither positions nor totalDistance.
C3_SampleIgnoredWhenNotTracking ==
    [][(PositionCallback /\ ~isTracking)
         => UNCHANGED <<positions, totalDistance>>]_vars

\* C4: after the position stream reports an error, or start() finds no
\* geolocation, the session is not Tracking, no timer advances the elapsed
\* time, and statusEl shows the error.
C4_ErrorHaltsTracking ==
    (\/ last.op = "error"
     \/ (last.op = "start" /\ ~last.wasTracking /\ ~geolocation))
    => /\ ~isTracking
       /\ timers = {}
       /\ statusEl \in {"error", "unsupported"}

\* C5: when stop() or reset() has run on a Tracking session, the timer and the
\* subscription that session held are no longer active, whatever their handles.
C5_StopCancelsTimerAndWatch ==
    [][((StopTracking \/ ResetTracking) /\ isTracking)
         => /\ Val(timerInterval) \notin timers'
            /\ (watchId # Null => Val(watchId) \notin watches')]_vars

-----------------------------------------------------------------------------
(* reset and start *)

\* C6: once reset() has run, whatever ran before it, totalDistance is 0,
\* positions is empty, the elapsed time is 0, the start time is null and the
\* session is not Tracking.
C6_ResetClears ==
    last.op = "reset"
    => /\ totalDistance = 0
       /\ positions = <<>>
       /\ currentTime = 0
       /\ startTime = Null
       /\ ~isTracking

\* reset() has run on a Tracking session that had samples and a saved run
C6_Witness ==
    /\ last = [op |-> "reset", wasTracking |-> TRUE]
    /\ savedRuns # <<>>
    /\ now > 0

\* C7: start() on a session that is already Tracking creates no timer and no
\* subscription and leaves every field of the session as it was.
C7_StartWhileTrackingIsNoOp ==
    [][(StartTracking /\ isTracking) => UNCHANGED <<session, timers, watches>>]_vars

\* start() has run on a Tracking session that has samples and elapsed time
C7_Witness ==
    /\ last = [op |-> "start", wasTracking |-> TRUE]
    /\ positions # <<>>
    /\ currentTime > 0

-----------------------------------------------------------------------------
(* save *)

\* C8 as stated: save() with totalDistance not above the threshold signals
\* run-too-short and leaves savedRuns unchanged, and savedRuns changes only
\* when totalDistance is above the threshold.
C8_SaveNeedsMoreThanThreshold ==
    [][/\ (SaveCurrentRun /\ totalDistance <= SaveThresholdM)
            => (alerted' = "tooShort" /\ UNCHANGED savedRuns)
       /\ (savedRuns' # savedRuns => totalDistance > SaveThresholdM)]_vars

\* C8 amended: save() with totalDistance below the threshold signals
\* run-too-short and leaves savedRuns unchanged, and savedRuns changes only
\* when totalDistance is at least the threshold.
C8_SaveNeedsThreshold ==
    [][/\ (SaveCurrentRun /\ totalDistance < SaveThresholdM)
            => (alerted' = "tooShort" /\ UNCHANGED savedRuns)
       /\ (savedRuns' # savedRuns => totalDistance >= SaveThresholdM)]_vars

\* save() has signalled run-too-short on a session with a recorded position
C8_Witness ==
    /\ last.op = "save"
    /\ alerted = "tooShort"
    /\ positions # <<>>
    /\ totalDistance < SaveThresholdM

\* C9: a successful save() appends exactly one run at the end of savedRuns,
\* with the session's totalDistance, elapsed time and positions.
C9_SaveAppendsSnapshot ==
    [][(SaveCurrentRun /\ alerted' = "saved")
         => /\ Len(savedRuns') = Len(savedRuns) + 1
            /\ SubSeq(savedRuns', 1, Len(savedRuns)) = savedRuns
            /\ savedRuns'[Len(savedRuns')].distance = totalDistance
            /\ savedRuns'[Len(savedRuns')].time = currentTime
            /\ savedRuns'[Len(savedRuns')].positions = positions]_vars

\* a second run has been saved, after time has elapsed
C9_Witness ==
    /\ last.op = "save"
    /\ alerted = "saved"
    /\ Len(savedRuns) = 2
    /\ savedRuns[2].time > 0
    /\ Len(savedRuns[2].positions) > Len(savedRuns[1].positions)

\* C10: save(), successful or not, leaves the session, its timer and its
\* subscription as they were.
C10_SaveLeavesSession ==
    [][SaveCurrentRun => UNCHANGED <<session, timers, watches>>]_vars

\* a run has been saved from a Tracking session
C10_Witness ==
    /\ last = [op |-> "save", wasTracking |-> TRUE]
    /\ alerted = "saved"
    /\ isTracking
    /\ timers # {}
    /\ watches # {}

-----------------------------------------------------------------------------
(* The archive during a session *)

\* C11: every step of a session keeps each run of savedRuns in its place with
\* its id, distance, time and positions: no run is changed and none is removed.
C11_SavedRunsImmutable ==
    [][\A i \in 1..Len(savedRuns) :
          /\ i <= Len(savedRuns')
          /\ savedRuns'[i].id = savedRuns[i].id
          /\ savedRuns'[i].distance = savedRuns[i].distance
          /\ savedRuns'[i].time = savedRuns[i].time
          /\ savedRuns'[i].positions = savedRuns[i].positions]_vars

\* a sample has been recorded after the last run was saved
C11_Witness ==
    /\ last.op = "sample"
    /\ savedRuns # <<>>
    /\ Len(positions) > Len(savedRuns[Len(savedRuns)].positions)

\* C12: stop() on a Tracking session leaves totalDistance, positions and the
\* elapsed time as they were; stop() on a session that is not Tracking changes
\* nothing at all.
C12_StopKeepsRecording ==
    [][StopTracking
         => /\ UNCHANGED <<totalDistance, positions, currentTime>>
            /\ (~isTracking
                  => UNCHANGED <<session, savedRuns, savedRunsList, storage,
                                 statusEl, now, timers, watches, nextWatchId,
                                 tasks, geolocation>>)]_vars

\* stop() has run on a Tracking session with samples, while the clock was
\* ahead of the elapsed time shown
C12_Witness ==
    /\ last = [op |-> "stop", wasTracking |-> TRUE]
    /\ totalDistance > 0
    /\ now - Val(startTime) >= (currentTime + 1) * 1000

\* C14: every step other than reset() leaves positions as it was or extends
\* it by exactly one element at the end.
C14_PositionsAppendOnly ==
    [][\/ positions' = positions
       \/ /\ Len(positions') = Len(positions) + 1
          /\ SubSeq(positions', 1, Len(positions)) = positions
       \/ ResetTracking]_vars

\* a sample at another place has been appended to a recorded position
C14_Witness ==
    /\ last.op = "sample"
    /\ Len(positions) >= 2
    /\ positions[Len(positions)] # positions[1]

-----------------------------------------------------------------------------
(* Elapsed time *)

\* C13: when start() is called at clock T on a session whose elapsed time is
\* e (what the stop() before it left), a tick at clock T + d sets the elapsed
\* time to floor((e * 1000 + d) / 1000); and while the session is not
\* Tracking no step other than reset() changes the elapsed time.
C13_ElapsedCountsTrackingOnly ==
    [][/\ Tick => currentTime' = (Val(resumed).elapsed * 1000
                                  + (now - Val(resumed).at)) \div 1000
       /\ ~isTracking => (currentTime' = currentTime \/ ResetTracking)]_vars

\* a tick has run on a session that was resumed with a second already elapsed
C13_Witness ==
    /\ last.op = "tick"
    /\ resumed # Null
    /\ Val(resumed).elapsed > 0
    /\ currentTime > 0

\* C20: a tick changes only the elapsed time, so it leaves positions and
\* totalDistance (and every other field of the session) as they were; a
\* position sample changes only positions and totalDistance, so it leaves the
\* elapsed time and the start time (and every other field) as they were.
C20_TickAndSampleDisjoint ==
    [][/\ Tick => UNCHANGED <<positions, totalDistance, isTracking, startTime,
                              timerInterval, watchId>>
       /\ PositionCallback => UNCHANGED <<currentTime, startTime, isTracking,
                                          timerInterval, watchId>>]_vars

\* a tick has advanced the elapsed time of a session that has samples, and a
\* sample is queued behind it
C20_Witness ==
    /\ last.op = "tick"
    /\ currentTime > 0
    /\ totalDistance > 0
    /\ tasks # <<>>

-----------------------------------------------------------------------------
(* Run ids *)

\* C15: the runs of savedRuns have pairwise distinct ids, also when two saves
\* happen with no clock advance between them.
C15_RunIdsDistinct ==
    \A i, j \in 1..Len(savedRuns) : i # j => savedRuns[i].id # savedRuns[j].id

-----------------------------------------------------------------------------
(* The stored archive *)

\* the stored item is an array whose elements are all runs
IsRunList(payload) ==
    /\ payload.kind = "array"
    /\ \A i \in 1..Len(payload.items) : payload.items[i].t = "run"

\* C16: when a page has loaded from a stored item that is corrupt or is not
\* a list of runs, savedRuns is empty: no partially loaded run is left in it.
C16_CorruptPayloadLoadsNothing ==
    (last.op = "load" /\ storage # Absent /\ ~IsRunList(storage))
    => savedRuns = <<>>

\* both are runs with the same id, distance, time and positions, or neither
\* is a run
SameRun(a, b) ==
    /\ "id" \in DOMAIN a <=> "id" \in DOMAIN b
    /\ "id" \in DOMAIN a
         => /\ a.id = b.id
            /\ a.distance = b.distance
            /\ a.time = b.time
            /\ a.positions = b.positions

\* C17: the runs a page loads are the runs savedRuns held when the page
\* before it was left: as many, in the same order, each with the same id,
\* distance, time and positions.
C17_ReloadRestoresRuns ==
    [][Reload
         => /\ Len(savedRuns') = Len(savedRuns)
            /\ \A i \in 1..Len(savedRuns) :
                  SameRun(savedRuns'[i], savedRuns[i])]_vars

\* a page has loaded a run that was stored before it and a run of three
\* samples that the page before it had saved after a tick
C17_Witness ==
    /\ last.op = "load"
    /\ positions = <<>>
    /\ IsRunList(storage)
    /\ Len(savedRuns) = 2
    /\ Len(savedRuns[1].positions) = 1
    /\ Len(savedRuns[2].positions) = 3
    /\ savedRuns[2].time > 0
    /\ savedRuns[2].id > 0

\* C18: savedRunsList shows the runs most recent first and never more than
\* ListCap entries.
C18_ListRecentFirstCapped ==
    /\ Len(savedRunsList) <= ListCap
    /\ \A i \in 1..Len(savedRunsList) :
          savedRunsList[i].date = savedRuns[Len(savedRuns) + 1 - i].date

-----------------------------------------------------------------------------
(* formatTime *)

\* text is hours, minutes and seconds of the duration s, separated by ":",
\* each of at least two digits, the hours in full
ShowsDuration(text, s) ==
    LET colons == {k \in 1..Len(text) : text[k] = ":"}
    IN /\ Cardinality(colons) = 2
       /\ LET c1 == CHOOSE k \in colons : \A l \in colons : k <= l
              c2 == CHOOSE k \in colons : \A l \in colons : k >= l
              h == SubSeq(text, 1, c1 - 1)
              m == SubSeq(text, c1 + 1, c2 - 1)
              sec == SubSeq(text, c2 + 1, Len(text))
          IN /\ Len(h) >= 2 /\ Len(m) = 2 /\ Len(sec) = 2
             /\ Len(h) > 2 => h[1] # "0"
             /\ ParseInt(h) = s \div 3600
             /\ ParseInt(m) = (s % 3600) \div 60
             /\ ParseInt(m) \in 0..59
             /\ ParseInt(sec) = s % 60
             /\ ParseInt(sec) \in 0..59

\* C19: every time that savedRunsList shows is the hours, minutes and seconds
\* of its run's duration s: floor(s/3600), floor((s mod 3600)/60) and
\* s mod 60, each padded to at least two digits, hours of 100 or more in
\* full; 3661 is shown as 01:01:01 and 0 as 00:00:00.
C19_FormatTime ==
    \A i \in 1..Len(savedRunsList) :
        LET s == savedRuns[Len(savedRuns) + 1 - i].time
            text == savedRunsList[i].time
        IN /\ ShowsDuration(text, s)
           /\ s = 3661 => text = <<"0", "1", ":", "0", "1", ":", "0", "1">>
           /\ s = 0 => text = <<"0", "0", ":", "0", "0", ":", "0", "0">>

\* the list shows a run of a hundred hours, and runs of 3661 s and of 0 s
C19_Witness ==
    /\ savedRunsList # <<>>
    /\ Len(savedRunsList[1].time) = 9
    /\ \E i \in 1..Len(savedRuns) : savedRuns[i].time = 3661
    /\ \E i \in 1..Len(savedRuns) : savedRuns[i].time = 0

-----------------------------------------------------------------------------
(* Timers and subscriptions *)

\* C21: in every reachable state at most one timer and at most one position
\* subscription are active, and a timer is active if and only if the session
\* is Tracking.
C21_OneTimerOneWatch ==
    /\ Cardinality(timers) <= 1
    /\ Cardinality(watches) <= 1
    /\ timers # {} <=> isTracking

-----------------------------------------------------------------------------
(* The history list *)

\* the run entries of a history list
RunEntries(list) == SelectSeq(list, LAMBDA item : item # NoRuns)

\* the first ListCap items
Capped(list) ==
    IF Len(list) > ListCap THEN SubSeq(list, 1, ListCap) ELSE list

\* C22: in the variant with the history list, stop() or reset() on a Tracking
\* session whose totalDistance is above 0.1 km adds exactly one entry, that
\* distance, on top of the entries the list had (of which the list keeps
\* the first ListCap - 1); stop() or reset() on a session that is not
\* Tracking leaves the list as it was.
C22_StopAddsOneHistoryEntry ==
    [][/\ (isTracking /\ totalDistance > HistoryThresholdM
           /\ (last'.op = "stop" \/ last'.op = "reset")
           /\ (HistoryStopTracking \/ HistoryResetTracking))
         => /\ ~isTracking'
            /\ RunEntries(historyList')
                 = Capped(<<[date |-> now \div 60000,
                             distance |-> (totalDistance + 5) \div 10]>>
                          \o RunEntries(historyList))
       /\ (~isTracking
           /\ (last'.op = "stop" \/ last'.op = "reset")
           /\ (HistoryStopTracking \/ HistoryResetTracking))
         => UNCHANGED historyList]_vars

\* reset() has run on a Tracking session and has left the session cleared;
\* the list holds a longer run on top of a shorter one
C22_Witness ==
    /\ last = [op |-> "reset", wasTracking |-> TRUE]
    /\ totalDistance = 0
    /\ Len(historyList) = 2
    /\ historyList[1].distance > historyList[2].distance

=============================================================================
